---- MODULE Spec2Model ----
(***************************************************************************)
(* Model of mmuxer/models/condition.py: the condition tree (From, To,      *)
(* Subject, Body, Header/HeaderField, All, Any, Not), its construction     *)
(* from configuration, eval(message), to_sieve() and headers_only.         *)
(*                                                                         *)
(* A Python str is a sequence of one-character strings.  A Python dict is  *)
(* a function whose DOMAIN is its key set.  A call that raises is a result *)
(* whose exc field names the exception.                                    *)
(***************************************************************************)
EXTENDS Naturals, Sequences, FiniteSets, TLC

VARIABLES cfg, tree, msg, pc, out, order, wmsg, wpc, stack, ret, entered, returned

vars == <<cfg, tree, msg, pc, out, order, wmsg, wpc, stack, ret, entered, returned>>

(***************************************************************************)
(* Bounds                                                                  *)
(***************************************************************************)
\* largest number of nodes of a configured condition tree
MaxNodes == 3
\* longest message field value
MaxLen == 2

(***************************************************************************)
(* Strings                                                                 *)
(***************************************************************************)
RECURSIVE StrsUpTo(_, _)
StrsUpTo(alphabet, n) ==
    IF n = 0 THEN {<<>>}
    ELSE LET shorter == StrsUpTo(alphabet, n - 1)
         IN  shorter \cup {Append(s, c) : s \in shorter, c \in alphabet}

\* str.lower() on one character
LowerTable == [A |-> "a", B |-> "b", F |-> "f", S |-> "s", T |-> "t", X |-> "x"]
UpperTable == [a |-> "A", b |-> "B", f |-> "F", s |-> "S", t |-> "T", x |-> "X"]
LowerChar(c) == IF c \in DOMAIN LowerTable THEN LowerTable[c] ELSE c
UpperChar(c) == IF c \in DOMAIN UpperTable THEN UpperTable[c] ELSE c
IsLetter(c) == c \in DOMAIN LowerTable \/ c \in DOMAIN UpperTable \/ c \in {"r", "o", "m", "u", "j", "e", "c", "d", "y"}

\* str.lower()
Lower(s) == [i \in 1..Len(s) |-> LowerChar(s[i])]
\* str.title(): a letter that follows a non-letter is upper-cased, every other one lower-cased
Title(s) == [i \in 1..Len(s) |->
               IF i = 1 \/ ~IsLetter(s[i - 1]) THEN UpperChar(s[i]) ELSE LowerChar(s[i])]

\* Python's `a in b` on strings
IsSubstring(a, b) ==
    \E i \in 0..Len(b) : i + Len(a) <= Len(b) /\ SubSeq(b, i + 1, i + Len(a)) = a

\* " ".join(seq)
RECURSIVE JoinWith(_, _)
JoinWith(sep, strs) ==
    IF Len(strs) = 0 THEN <<>>
    ELSE IF Len(strs) = 1 THEN strs[1]
    ELSE strs[1] \o sep \o JoinWith(sep, Tail(strs))

(***************************************************************************)
(* ComparisonOperator (enums.py)                                           *)
(***************************************************************************)
Operators == {"CONTAINS", "EQUALS"}

\* ComparisonOperator.eval(operand, value)
OperatorEval(operator, operand, value) ==
    IF operator = "CONTAINS" THEN IsSubstring(operand, value) ELSE operand = value

\* ComparisonOperator.sieve
OperatorSieve(operator) == IF operator = "CONTAINS" THEN <<":contains">> ELSE <<":is">>

\* enum validation of a configured operator value
ParseOperator(s) ==
    IF s = <<"CONTAINS">> THEN "CONTAINS"
    ELSE IF s = <<"EQUALS">> THEN "EQUALS"
    ELSE "invalid"

(***************************************************************************)
(* Python dict operations                                                  *)
(***************************************************************************)
None == <<"None">>
DictGet(d, k, default) == IF k \in DOMAIN d THEN d[k] ELSE default
DictPop(d, k) == [x \in DOMAIN d \ {k} |-> d[x]]
DictSet(d, k, v) == [x \in DOMAIN d \cup {k} |-> IF x = k THEN v ELSE d[x]]
\* truthiness of a str or None
Truthy(v) == v # None /\ v # <<>>


(***************************************************************************)
(* Condition nodes                                                         *)
(*   kind          the class: From, To, Subject, Body, HeaderField,        *)
(*                 Header, All, Any, Not; ValidationError when pydantic    *)
(*                 rejects the configuration                               *)
(*   cls           self.__class__.__name__ of a leaf                       *)
(*   operator      IBaseCondition.operator                                 *)
(*   headers_only  the stored field of a leaf or of Header                 *)
(*   operand       FROM / TO / SUBJECT / BODY / VALUE                      *)
(*   FIELD         HeaderField.FIELD                                       *)
(*   kids          All.ALL, Any.ANY, <<Not.NOT>> or <<Header.HEADER>>      *)
(***************************************************************************)
\* a configured operand: a str, or a frozenset of str
Str(s) == [isStr |-> TRUE, s |-> s, set |-> {}]
StrSet(S) == [isStr |-> FALSE, s |-> <<>>, set |-> S]

Node(kind, cls, operator, headers_only, operand, field, kids) ==
    [kind |-> kind, cls |-> cls, operator |-> operator, headers_only |-> headers_only,
     operand |-> operand, FIELD |-> field, kids |-> kids]

ValidationError == Node("ValidationError", <<>>, "none", TRUE, Str(<<>>), <<>>, <<>>)

LeafKinds == {"From", "To", "Subject", "Body", "HeaderField"}
ClassName(kind) ==
    IF kind = "From" THEN <<"F", "r", "o", "m">>
    ELSE IF kind = "To" THEN <<"T", "o">>
    ELSE IF kind = "Subject" THEN <<"S", "u", "b", "j", "e", "c", "t">>
    ELSE <<"B", "o", "d", "y">>

\* IBaseCondition.operator: ComparisonOperator = ComparisonOperator.CONTAINS
DefaultOperator == "CONTAINS"

\* the operator field of a model validated from dict d, whose "operator" key is k
OperatorField(d, k) == IF k \in DOMAIN d THEN ParseOperator(d[k]) ELSE DefaultOperator

\* From(FROM=..., operator=...)
MakeFrom(d) ==
    IF OperatorField(d, "operator") = "invalid" THEN ValidationError
    ELSE Node("From", ClassName("From"), OperatorField(d, "operator"), TRUE, d["FROM"], <<>>, <<>>)

\* To(TO=..., operator=...)
MakeTo(d) ==
    IF OperatorField(d, "operator") = "invalid" THEN ValidationError
    ELSE Node("To", ClassName("To"), OperatorField(d, "operator"), TRUE, d["TO"], <<>>, <<>>)

\* Subject(SUBJECT=..., operator=...)
MakeSubject(d) ==
    IF OperatorField(d, "operator") = "invalid" THEN ValidationError
    ELSE Node("Subject", ClassName("Subject"), OperatorField(d, "operator"), TRUE,
              d["SUBJECT"], <<>>, <<>>)

\* Body(BODY=..., operator=...): BODY is a str, headers_only defaults to False
MakeBody(d) ==
    IF OperatorField(d, "operator") = "invalid" \/ ~d["BODY"].isStr THEN ValidationError
    ELSE Node("Body", ClassName("Body"), OperatorField(d, "operator"), FALSE, d["BODY"], <<>>, <<>>)

K_FIELD == <<"FIELD">>
K_VALUE == <<"VALUE">>
K_operator == <<"operator">>
\* the tuple ("FIELD", "VALUE") that parse_dict looks up as a key of the header dict
TupleFieldValue == <<"FIELD", "VALUE">>

\* HeaderField.set_header_class: the instance's class is renamed FIELD.title()
SetHeaderClass(hf) == [hf EXCEPT !.cls = Title(hf.FIELD)]

\* HeaderField(**h): str_to_lower lower-cases every str field, then set_header_class
MakeHeaderField(h) ==
    IF K_FIELD \notin DOMAIN h \/ K_VALUE \notin DOMAIN h THEN ValidationError
    ELSE IF OperatorField(h, K_operator) = "invalid" THEN ValidationError
    ELSE SetHeaderClass(Node("HeaderField", <<>>, OperatorField(h, K_operator), TRUE,
                             Str(Lower(h[K_VALUE])), Lower(h[K_FIELD]), <<>>))

\* Header.parse_dict (mode="before")
ParseDict(data) ==
    IF "HEADER" \in DOMAIN data
    THEN LET header == data["HEADER"]
             data1 == DictPop(data, "operator")
         IN  IF TupleFieldValue \notin DOMAIN header
             THEN LET operator == DictGet(header, K_operator, None)
                      h1 == DictPop(header, K_operator)
                      h2 == IF Cardinality(DOMAIN h1) = 1
                            THEN LET key == CHOOSE k \in DOMAIN h1 : TRUE
                                 IN  (K_FIELD :> key) @@ (K_VALUE :> h1[key])
                            ELSE h1
                      h3 == IF Truthy(operator) THEN DictSet(h2, K_operator, operator) ELSE h2
                  IN  DictSet(data1, "HEADER", h3)
             ELSE data1
    ELSE data

\* Header(**data): parse_dict, then validation of HEADER as a HeaderField
MakeHeader(data) ==
    LET d == ParseDict(data)
        hf == MakeHeaderField(d["HEADER"])
    IN  IF hf.kind = "ValidationError" THEN ValidationError
        ELSE Node("Header", <<>>, "none", TRUE, Str(<<>>), <<>>, <<hf>>)

\* validation of a configuration value as a Condition (the Union of line 245)
RECURSIVE Construct(_)
ConstructList(cs) == [i \in 1..Len(cs) |-> Construct(cs[i])]
AnyInvalid(ks) == \E i \in 1..Len(ks) : ks[i].kind = "ValidationError"
\* a list field that requires at least one item
MakeAllNonEmpty(d) ==
    LET ks == ConstructList(d["ALL"])
    IN  IF AnyInvalid(ks) \/ Len(ks) = 0 THEN ValidationError
        ELSE Node("All", <<>>, "none", TRUE, Str(<<>>), <<>>, ks)
\* All(ALL=[...])
MakeAll(d) ==
    LET ks == ConstructList(d["ALL"])
    IN  IF AnyInvalid(ks) THEN ValidationError
        ELSE Node("All", <<>>, "none", TRUE, Str(<<>>), <<>>, ks)
\* Any(ANY=[...])
MakeAny(d) ==
    LET ks == ConstructList(d["ANY"])
    IN  IF AnyInvalid(ks) THEN ValidationError
        ELSE Node("Any", <<>>, "none", TRUE, Str(<<>>), <<>>, ks)
\* Not(NOT=...)
MakeNot(d) ==
    LET k == Construct(d["NOT"])
    IN  IF k.kind = "ValidationError" THEN ValidationError
        ELSE Node("Not", <<>>, "none", TRUE, Str(<<>>), <<>>, <<k>>)
Construct(d) ==
    IF "FROM" \in DOMAIN d THEN MakeFrom(d)
    ELSE IF "TO" \in DOMAIN d THEN MakeTo(d)
    ELSE IF "SUBJECT" \in DOMAIN d THEN MakeSubject(d)
    ELSE IF "BODY" \in DOMAIN d THEN MakeBody(d)
    ELSE IF "HEADER" \in DOMAIN d THEN MakeHeader(d)
    ELSE IF "ALL" \in DOMAIN d THEN MakeAll(d)
    ELSE IF "ANY" \in DOMAIN d THEN MakeAny(d)
    ELSE IF "NOT" \in DOMAIN d THEN MakeNot(d)
    ELSE ValidationError

(***************************************************************************)
(* Messages (imap_tools.MailMessage): from_, to, subject, text, html and   *)
(* headers, a dict from lower-cased field name to a tuple of values.       *)
(***************************************************************************)
Message(from_, to, subject, text, html, headers) ==
    [from_ |-> from_, to |-> to, subject |-> subject, text |-> text, html |-> html,
     headers |-> headers]

\* imap_tools gives every header that is present at least one value
Conforming(m) == \A k \in DOMAIN m.headers : Len(m.headers[k]) > 0

(***************************************************************************)
(* Results of a call: a bool, a str, or an exception                       *)
(***************************************************************************)
BoolResult(v) == [exc |-> "none", val |-> v, str |-> <<>>]
StrResult(s) == [exc |-> "none", val |-> FALSE, str |-> s]
Raise(e) == [exc |-> e, val |-> FALSE, str |-> <<>>]

\* iteration of a frozenset: its members in the interpreter's order
SetInOrder(S, ord) == SelectSeq(ord, LAMBDA x : x \in S)

(***************************************************************************)
(* eval                                                                    *)
(***************************************************************************)
\* HeaderField.get_value: message.headers.get(self.FIELD, ("",))[0]
HeaderGetValue(n, m) ==
    LET values == DictGet(m.headers, n.FIELD, <<<<>>>>)
    IN  IF Len(values) = 0 THEN Raise("IndexError") ELSE StrResult(values[1])

\* get_value of each leaf class
GetValue(n, m) ==
    IF n.kind = "From" THEN StrResult(m.from_)
    ELSE IF n.kind = "To" THEN StrResult(JoinWith(<<" ">>, m.to))
    ELSE IF n.kind = "Subject" THEN StrResult(m.subject)
    ELSE IF n.kind = "Body" THEN StrResult(m.text \o m.html)
    ELSE HeaderGetValue(n, m)

\* get_operand of each leaf class
GetOperand(n) == n.operand

\* the operands AND'd: all(...) where the code has any(...)
RECURSIVE AllOperands(_, _, _)
AllOperands(operator, operands, value) ==
    IF Len(operands) = 0 THEN TRUE
    ELSE IF ~OperatorEval(operator, Head(operands), value) THEN FALSE
    ELSE AllOperands(operator, Tail(operands), value)

\* any(self.operator.eval(op, value) for op in operands)
RECURSIVE AnyOperand(_, _, _)
AnyOperand(operator, operands, value) ==
    IF Len(operands) = 0 THEN FALSE
    ELSE IF OperatorEval(operator, Head(operands), value) THEN TRUE
    ELSE AnyOperand(operator, Tail(operands), value)

\* IBaseCondition.eval
LeafEval(n, m) ==
    LET value == GetValue(n, m)
        operand == GetOperand(n)
        operands == IF operand.isStr THEN <<operand.s>> ELSE SetInOrder(operand.set, order)
    IN  IF value.exc # "none" THEN value
        ELSE BoolResult(AnyOperand(n.operator, operands, value.str))

RECURSIVE Eval(_, _)
\* all(operand.eval(message) for operand in self.ALL), from the i-th operand on
RECURSIVE AllEvalFrom(_, _, _)
AllEvalFrom(kids, i, m) ==
    IF i > Len(kids) THEN BoolResult(TRUE)
    ELSE LET r == Eval(kids[i], m)
         IN  IF r.exc # "none" THEN r
             ELSE IF ~r.val THEN BoolResult(FALSE)
             ELSE AllEvalFrom(kids, i + 1, m)
\* any(operand.eval(message) for operand in self.ANY), from the i-th operand on
RECURSIVE AnyEvalFrom(_, _, _)
AnyEvalFrom(kids, i, m) ==
    IF i > Len(kids) THEN BoolResult(FALSE)
    ELSE LET r == Eval(kids[i], m)
         IN  IF r.exc # "none" THEN r
             ELSE IF r.val THEN BoolResult(TRUE)
             ELSE AnyEvalFrom(kids, i + 1, m)
\* a conjunction that answers like a disjunction
AllEvalAsAny(n, m) == AnyEvalFrom(n.kids, 1, m)
\* All.eval
AllEval(n, m) == AllEvalFrom(n.kids, 1, m)
\* Any.eval
AnyEval(n, m) == AnyEvalFrom(n.kids, 1, m)
\* Not.eval
NotEval(n, m) ==
    LET r == Eval(n.kids[1], m)
    IN  IF r.exc # "none" THEN r ELSE BoolResult(~r.val)
\* Header.eval
HeaderEval(n, m) == LeafEval(n.kids[1], m)
Eval(n, m) ==
    IF n.kind = "All" THEN AllEval(n, m)
    ELSE IF n.kind = "Any" THEN AnyEval(n, m)
    ELSE IF n.kind = "Not" THEN NotEval(n, m)
    ELSE IF n.kind = "Header" THEN HeaderEval(n, m)
    ELSE LeafEval(n, m)

(***************************************************************************)
(* to_sieve                                                                *)
(***************************************************************************)
Quote == "\""
Quoted(s) == <<Quote>> \o s \o <<Quote>>
QuotedEach(strs) == [i \in 1..Len(strs) |-> Quoted(strs[i])]

\* IBaseCondition.to_sieve
BaseToSieve(n) ==
    LET operand == GetOperand(n)
        operand_str ==
            IF operand.isStr THEN Quoted(operand.s)
            ELSE <<"[">> \o JoinWith(<<",", " ">>, QuotedEach(SetInOrder(operand.set, order)))
                 \o <<"]">>
    IN  StrResult(<<"header", " ">> \o OperatorSieve(n.operator) \o <<" ">>
                  \o Quoted(Lower(n.cls)) \o <<" ">> \o operand_str)

\* Body.to_sieve: the operand's closing quote is not written
BodyToSieve(n) ==
    StrResult(<<"body", " ", ":text", " ">> \o OperatorSieve(n.operator) \o <<" ", Quote>>
              \o GetOperand(n).s)

RECURSIVE ToSieve(_)
\* Not.to_sieve
NotToSieve(n) ==
    LET r == ToSieve(n.kids[1])
    IN  IF r.exc # "none" THEN r ELSE StrResult(<<"not", " ">> \o r.str)
\* attribute lookup of to_sieve on All, Any and Header, which define none
NoToSieve(n) == Raise("AttributeError")
ToSieve(n) ==
    IF n.kind \in {"All", "Any", "Header"} THEN NoToSieve(n)
    ELSE IF n.kind = "Not" THEN NotToSieve(n)
    ELSE IF n.kind = "Body" THEN BodyToSieve(n)
    ELSE BaseToSieve(n)

(***************************************************************************)
(* headers_only                                                            *)
(***************************************************************************)
RECURSIVE HeadersOnly(_)
\* All.headers_only
AllHeadersOnly(n) == \A i \in 1..Len(n.kids) : HeadersOnly(n.kids[i])
\* any(...) where the code has all(...)
AnyHeadersOnlySome(n) == \E i \in 1..Len(n.kids) : HeadersOnly(n.kids[i])
\* Any.headers_only
AnyHeadersOnly(n) == \A i \in 1..Len(n.kids) : HeadersOnly(n.kids[i])
\* Not.headers_only
NotHeadersOnly(n) == HeadersOnly(n.kids[1])
HeadersOnly(n) ==
    IF n.kind = "All" THEN AllHeadersOnly(n)
    ELSE IF n.kind = "Any" THEN AnyHeadersOnly(n)
    ELSE IF n.kind = "Not" THEN NotHeadersOnly(n)
    ELSE n.headers_only

(***************************************************************************)
(* Inputs                                                                  *)
(***************************************************************************)
A == <<"a">>
B == <<"b">>
AB == <<"a", "b">>
\* header field names as configured, and as imap_tools keys them
XS == <<"x", "-", "s">>
XSUpper == <<"X", "-", "S">>

\* the orders in which the interpreter may iterate a frozenset of operands
Orders == {<<A, B>>, <<B, A>>}

OperatorValues == {<<"CONTAINS">>, <<"EQUALS">>, <<"BOGUS">>}
ConfigOperands == {Str(A), Str(B), Str(AB), StrSet({A, B}), StrSet({A}), StrSet({})}

WithOperators(d) == {d} \cup {d @@ ("operator" :> o) : o \in OperatorValues}

\* header mappings: the shorthand and the explicit shape, with and without an
\* operator key, and shapes the validation rejects
HeaderDicts ==
    LET names == {XS, XSUpper}
        values == {A, <<"A">>, <<"A", "b">>}
        plain == {(n :> v) : n \in names, v \in values}
                 \cup {(K_FIELD :> n) @@ (K_VALUE :> v) : n \in names, v \in values}
    IN  plain
        \cup {h @@ (K_operator :> o) : h \in plain, o \in {<<"CONTAINS">>, <<"EQUALS">>}}
        \cup {<<>>, (XS :> A) @@ (<<"y">> :> B)}
HeaderConfigs ==
    {("HEADER" :> h) : h \in HeaderDicts}
    \cup {("HEADER" :> h) @@ ("operator" :> o) : h \in HeaderDicts, o \in {<<"EQUALS">>}}

LeafConfigs ==
    UNION {WithOperators(("FROM" :> x)) \cup WithOperators(("TO" :> x))
           \cup WithOperators(("SUBJECT" :> x)) \cup WithOperators(("BODY" :> x))
           : x \in ConfigOperands}
    \cup HeaderConfigs

\* the leaves of the configured trees
TreeLeafConfigs ==
    {("FROM" :> Str(A)), ("TO" :> Str(A)), ("SUBJECT" :> Str(A)), ("BODY" :> Str(B)),
     ("HEADER" :> (XS :> A))}

\* the configurations of exactly n nodes, and the lists of configurations of n nodes in all
RECURSIVE ConfigsOfSize(_, _)
RECURSIVE ListsOfSize(_, _)
ConfigsOfSize(leaves, n) ==
    IF n = 0 THEN {}
    ELSE (IF n = 1 THEN leaves ELSE {})
         \cup {("ALL" :> l) : l \in ListsOfSize(leaves, n - 1)}
         \cup {("ANY" :> l) : l \in ListsOfSize(leaves, n - 1)}
         \cup {("NOT" :> c) : c \in ConfigsOfSize(leaves, n - 1)}
ListsOfSize(leaves, n) ==
    IF n = 0 THEN {<<>>}
    ELSE UNION {{<<c>> \o l : c \in ConfigsOfSize(leaves, k), l \in ListsOfSize(leaves, n - k)}
                : k \in 1..n}
TreeConfigs == UNION {ConfigsOfSize(TreeLeafConfigs, n) : n \in 1..MaxNodes}

HasSetOperand(d) == \E k \in {"FROM", "TO", "SUBJECT", "BODY"} : k \in DOMAIN d /\ ~d[k].isStr
OrdersFor(d) == IF HasSetOperand(d) THEN Orders ELSE {<<A, B>>}

\* header mappings of a message: absent, one value, two values, and (not conforming)
\* a field present with no value
MessageHeaders == {<<>>, (XS :> <<A>>), (XS :> <<B, A>>), (XS :> <<AB>>), (XS :> <<>>)}
FieldValues == StrsUpTo({"a", "b"}, MaxLen)
Messages ==
    {Message(v, <<v, w>>, w, v, w, h) : v \in FieldValues, w \in FieldValues, h \in MessageHeaders}
\* the messages the configured trees are evaluated on
TreeMessages ==
    {Message(v, <<v, w>>, w, v, w, h) : v \in {A, B}, w \in {A, B},
                                        h \in {<<>>, (XS :> <<A>>), (XS :> <<>>)}}

(***************************************************************************)
(* The program: a configuration is loaded into a tree once, then eval,     *)
(* to_sieve and headers_only are called on it.                             *)
(***************************************************************************)
Workers == {1, 2}
NoMessage == Message(<<>>, <<>>, <<>>, <<>>, <<>>, <<>>)
NoTree == Node("none", <<>>, "none", TRUE, Str(<<>>), <<>>, <<>>)
Out(op, r) == [op |-> op, exc |-> r.exc, val |-> r.val, str |-> r.str]
NoOut == Out("none", BoolResult(FALSE))

WorkersIdle ==
    /\ wmsg = [w \in Workers |-> NoMessage]
    /\ wpc = [w \in Workers |-> "idle"]
    /\ stack = [w \in Workers |-> <<>>]
    /\ ret = [w \in Workers |-> NoOut]
    /\ entered = [w \in Workers |-> <<>>]
    /\ returned = [w \in Workers |-> <<>>]

Init ==
    /\ \/ cfg \in LeafConfigs /\ msg \in Messages
       \/ cfg \in TreeConfigs /\ msg \in TreeMessages
    /\ order \in OrdersFor(cfg)
    /\ tree = NoTree
    /\ pc = "config"
    /\ out = NoOut
    /\ WorkersIdle

\* the configuration is validated into a condition tree
Load ==
    /\ pc = "config"
    /\ tree' = Construct(cfg)
    /\ pc' = IF tree'.kind = "ValidationError" THEN "rejected" ELSE "built"
    /\ UNCHANGED <<cfg, msg, out, order, wmsg, wpc, stack, ret, entered, returned>>

\* tree.eval(msg)
CallEval ==
    /\ pc = "built"
    /\ out' = Out("eval", Eval(tree, msg))
    /\ UNCHANGED <<cfg, tree, msg, pc, order, wmsg, wpc, stack, ret, entered, returned>>

\* tree.to_sieve()
CallToSieve ==
    /\ pc = "built"
    /\ out' = Out("to_sieve", ToSieve(tree))
    /\ UNCHANGED <<cfg, tree, msg, pc, order, wmsg, wpc, stack, ret, entered, returned>>

\* tree.headers_only
CallHeadersOnly ==
    /\ pc = "built"
    /\ out' = Out("headers_only", BoolResult(HeadersOnly(tree)))
    /\ UNCHANGED <<cfg, tree, msg, pc, order, wmsg, wpc, stack, ret, entered, returned>>

Next ==
    \/ Load
    \/ CallEval
    \/ CallToSieve
    \/ CallHeadersOnly

Spec == Init /\ [][Next]_vars

(***************************************************************************)
(* Concurrent evaluation: worker threads call eval (and to_sieve) on the   *)
(* one tree.  A call of eval is a stack of frames, one per node whose eval *)
(* is running; a frame holds the node's path from the root and i, the      *)
(* position of the generator that all() / any() consumes.                  *)
(*   ret[w]       the value (or exception) the last finished call of       *)
(*                worker w returned to its caller, op = "none" when read   *)
(*   entered[w]   the paths of the nodes whose eval w has called, in order *)
(*   returned[w]  the calls of w that have finished, with their results    *)
(***************************************************************************)
RECURSIVE NodeAt(_, _)
NodeAt(n, path) == IF Len(path) = 0 THEN n ELSE NodeAt(n.kids[Head(path)], Tail(path))

Frame(path) == [path |-> path, i |-> 1]
Top(w) == stack[w][Len(stack[w])]
TopNode(w) == NodeAt(tree, Top(w).path)
Pop(w) == SubSeq(stack[w], 1, Len(stack[w]) - 1)
Returned(path, r) == [path |-> path, exc |-> r.exc, val |-> r.val]
Running(w) == wpc[w] = "running" /\ Len(stack[w]) > 0

\* the call returns r to its caller
Return(w, r) ==
    /\ stack' = [stack EXCEPT ![w] = Pop(w)]
    /\ ret' = [ret EXCEPT ![w] = Out("ret", r)]
    /\ returned' = [returned EXCEPT ![w] = Append(@, Returned(Top(w).path, r))]
    /\ UNCHANGED entered

\* the call evaluates its next operand: operand.eval(message)
CallOperand(w) ==
    /\ stack' = [stack EXCEPT ![w] = Append(@, Frame(Append(Top(w).path, Top(w).i)))]
    /\ entered' = [entered EXCEPT ![w] = Append(@, Append(Top(w).path, Top(w).i))]
    /\ UNCHANGED <<ret, returned>>

\* the generator moves on to the operand after the one that returned
NextOperand(w) ==
    /\ stack' = [stack EXCEPT ![w][Len(stack[w])].i = @ + 1]
    /\ ret' = [ret EXCEPT ![w] = NoOut]
    /\ UNCHANGED <<entered, returned>>

\* a worker calls tree.eval(wmsg[w])
StartEval(w) ==
    /\ pc = "built" /\ wpc[w] = "idle"
    /\ wpc' = [wpc EXCEPT ![w] = "running"]
    /\ stack' = [stack EXCEPT ![w] = <<Frame(<<>>)>>]
    /\ entered' = [entered EXCEPT ![w] = <<<<>>>>]
    /\ UNCHANGED <<cfg, tree, msg, pc, out, order, wmsg, ret, returned>>

\* a get_value that takes the header out of the message: headers.pop where the code has headers.get
StepLeafPopsHeader(w) ==
    /\ Running(w) /\ TopNode(w).kind \in LeafKinds
    /\ Return(w, LeafEval(TopNode(w), wmsg[w]))
    /\ wmsg' = [wmsg EXCEPT ![w].headers = DictPop(@, TopNode(w).FIELD)]
    /\ UNCHANGED <<cfg, tree, msg, pc, out, order, wpc>>

\* IBaseCondition.eval on a leaf
StepLeaf(w) ==
    /\ Running(w) /\ TopNode(w).kind \in LeafKinds
    /\ Return(w, LeafEval(TopNode(w), wmsg[w]))
    /\ UNCHANGED <<cfg, tree, msg, pc, out, order, wmsg, wpc>>

\* all([...]) over a list: every operand is evaluated
AllNeverStops(r) == FALSE
\* all(...) of All.eval: stops at the first operand that is false
AllStops(r) == ~r.val
\* any(...) of Any.eval: stops at the first operand that is true
AnyStops(r) == r.val

\* All.eval
StepAll(w) ==
    /\ Running(w) /\ TopNode(w).kind = "All"
    /\ IF ret[w].op = "ret"
       THEN IF ret[w].exc # "none" THEN Return(w, ret[w])
            ELSE IF AllStops(ret[w]) THEN Return(w, BoolResult(FALSE))
            ELSE NextOperand(w)
       ELSE IF Top(w).i <= Len(TopNode(w).kids) THEN CallOperand(w)
            ELSE Return(w, BoolResult(TRUE))
    /\ UNCHANGED <<cfg, tree, msg, pc, out, order, wmsg, wpc>>

\* Any.eval
StepAny(w) ==
    /\ Running(w) /\ TopNode(w).kind = "Any"
    /\ IF ret[w].op = "ret"
       THEN IF ret[w].exc # "none" THEN Return(w, ret[w])
            ELSE IF AnyStops(ret[w]) THEN Return(w, BoolResult(TRUE))
            ELSE NextOperand(w)
       ELSE IF Top(w).i <= Len(TopNode(w).kids) THEN CallOperand(w)
            ELSE Return(w, BoolResult(FALSE))
    /\ UNCHANGED <<cfg, tree, msg, pc, out, order, wmsg, wpc>>

\* Not.eval
StepNot(w) ==
    /\ Running(w) /\ TopNode(w).kind = "Not"
    /\ IF ret[w].op = "ret"
       THEN IF ret[w].exc # "none" THEN Return(w, ret[w])
            ELSE Return(w, BoolResult(~ret[w].val))
       ELSE CallOperand(w)
    /\ UNCHANGED <<cfg, tree, msg, pc, out, order, wmsg, wpc>>

\* Header.eval: self.HEADER.eval(message)
StepHeader(w) ==
    /\ Running(w) /\ TopNode(w).kind = "Header"
    /\ IF ret[w].op = "ret" THEN Return(w, ret[w]) ELSE CallOperand(w)
    /\ UNCHANGED <<cfg, tree, msg, pc, out, order, wmsg, wpc>>

\* tree.eval has returned to the worker
FinishEval(w) ==
    /\ wpc[w] = "running" /\ Len(stack[w]) = 0
    /\ wpc' = [wpc EXCEPT ![w] = "done"]
    /\ ret' = [ret EXCEPT ![w].op = "eval"]
    /\ UNCHANGED <<cfg, tree, msg, pc, out, order, wmsg, stack, entered, returned>>

\* a worker calls tree.to_sieve()
WorkerToSieve(w) ==
    /\ pc = "built" /\ wpc[w] = "idle"
    /\ wpc' = [wpc EXCEPT ![w] = "done"]
    /\ ret' = [ret EXCEPT ![w] = Out("to_sieve", ToSieve(tree))]
    /\ UNCHANGED <<cfg, tree, msg, pc, out, order, wmsg, stack, entered, returned>>

\* the worker is ready for its next call
NextCall(w) ==
    /\ wpc[w] = "done"
    /\ wpc' = [wpc EXCEPT ![w] = "idle"]
    /\ ret' = [ret EXCEPT ![w] = NoOut]
    /\ entered' = [entered EXCEPT ![w] = <<>>]
    /\ returned' = [returned EXCEPT ![w] = <<>>]
    /\ UNCHANGED <<cfg, tree, msg, pc, out, order, wmsg, stack>>

\* the leaves and the messages of the concurrent runs
ConcLeafConfigs == {("FROM" :> Str(A)), ("HEADER" :> (XS :> A))}
ConcConfigs == UNION {ConfigsOfSize(ConcLeafConfigs, n) : n \in 1..MaxNodes}
ConcMessages ==
    {Message(B, <<B>>, B, A, A, (XS :> <<A>>)), Message(A, <<A>>, A, A, A, (XS :> <<>>)),
     Message(B, <<B>>, B, B, B, (XS :> <<>>))}

\* the tree is built before it is shared with the workers
InitConc ==
    /\ cfg \in ConcConfigs
    /\ order = <<A, B>>
    /\ tree = Construct(cfg)
    /\ msg = NoMessage
    /\ pc = "built"
    /\ out = NoOut
    /\ wmsg \in [Workers -> ConcMessages]
    /\ wpc = [w \in Workers |-> "idle"]
    /\ stack = [w \in Workers |-> <<>>]
    /\ ret = [w \in Workers |-> NoOut]
    /\ entered = [w \in Workers |-> <<>>]
    /\ returned = [w \in Workers |-> <<>>]

NextConc ==
    \E w \in Workers :
        \/ StartEval(w)
        \/ StepLeaf(w)
        \/ StepAll(w)
        \/ StepAny(w)
        \/ StepNot(w)
        \/ StepHeader(w)
        \/ FinishEval(w)
        \/ WorkerToSieve(w)
        \/ NextCall(w)

SpecConc == InitConc /\ [][NextConc]_vars

(***************************************************************************)
(* Properties                                                              *)
(***************************************************************************)
Evaluated == pc = "built" /\ out.op = "eval"
Rendered == pc = "built" /\ out.op = "to_sieve"

\* the boolean a tree denotes: ALL is the conjunction, ANY the disjunction and NOT the
\* negation of what the children denote
RECURSIVE Denotes(_, _)
Denotes(n, m) ==
    IF n.kind = "All" THEN \A i \in 1..Len(n.kids) : Denotes(n.kids[i], m)
    ELSE IF n.kind = "Any" THEN \E i \in 1..Len(n.kids) : Denotes(n.kids[i], m)
    ELSE IF n.kind = "Not" THEN ~Denotes(n.kids[1], m)
    ELSE IF n.kind = "Header" THEN LeafEval(n.kids[1], m).val
    ELSE LeafEval(n, m).val

\* C1: on every tree and every conforming message, eval returns the boolean the tree
\* denotes: All.eval is true iff every child evaluates true, Any.eval iff at least one
\* child does, and Not.eval is the negation of its child, at every level of nesting.
C1_CombinatorSemantics ==
    (Evaluated /\ Conforming(msg)) =>
        /\ out.exc = "none"
        /\ out.val = Denotes(tree, msg)
        /\ tree.kind = "All" => (out.val <=> \A i \in 1..Len(tree.kids) : Eval(tree.kids[i], msg).val)
        /\ tree.kind = "Any" => (out.val <=> \E i \in 1..Len(tree.kids) : Eval(tree.kids[i], msg).val)
        /\ tree.kind = "Not" => (out.val <=> ~Eval(tree.kids[1], msg).val)

\* an ALL of two children, the first true and the second false, has evaluated to false
C1_Witness ==
    /\ Evaluated /\ Conforming(msg)
    /\ tree.kind = "All" /\ Len(tree.kids) = 2
    /\ Eval(tree.kids[1], msg).val /\ ~Eval(tree.kids[2], msg).val
    /\ ~out.val

IsLeafTree == tree.kind \in {"From", "To", "Subject", "Body", "Header"}
TheLeaf == IF tree.kind = "Header" THEN tree.kids[1] ELSE tree
OperandSet(n) == IF n.operand.isStr THEN {n.operand.s} ELSE n.operand.set

\* C3: a leaf's eval is true iff some configured operand s has
\* operator.eval(s, get_value(message)), a single string counting as the set of itself;
\* with the operands {"a", "b"} and CONTAINS it is true iff the value contains "a" or "b".
C3_OperandsAreOred ==
    (Evaluated /\ IsLeafTree /\ out.exc = "none") =>
        LET value == GetValue(TheLeaf, msg).str
        IN  /\ out.val <=> \E x \in OperandSet(TheLeaf) : OperatorEval(TheLeaf.operator, x, value)
            /\ (TheLeaf.operand = StrSet({A, B}) /\ TheLeaf.operator = "CONTAINS") =>
                   (out.val <=> (IsSubstring(A, value) \/ IsSubstring(B, value)))

\* a From leaf with the operands {"a", "b"} has matched a sender that holds "b" and no "a"
C3_Witness ==
    /\ Evaluated /\ tree.kind = "From"
    /\ tree.operand = StrSet({A, B}) /\ tree.operator = "CONTAINS"
    /\ IsSubstring(B, msg.from_) /\ ~IsSubstring(A, msg.from_)
    /\ out.val

\* a header configuration with no operator key: the shorthand or the explicit shape
IsShorthand(d) ==
    /\ DOMAIN d = {"HEADER"} /\ Cardinality(DOMAIN d["HEADER"]) = 1
    /\ DOMAIN d["HEADER"] \cap {K_FIELD, K_VALUE, K_operator} = {}
IsExplicit(d) == DOMAIN d = {"HEADER"} /\ DOMAIN d["HEADER"] = {K_FIELD, K_VALUE}
FieldOf(d) ==
    IF IsExplicit(d) THEN d["HEADER"][K_FIELD] ELSE CHOOSE k \in DOMAIN d["HEADER"] : TRUE
ValueOf(d) == IF IsExplicit(d) THEN d["HEADER"][K_VALUE] ELSE d["HEADER"][FieldOf(d)]
Shorthand(n, v) == ("HEADER" :> (n :> v))
Explicit(n, v) == ("HEADER" :> ((K_FIELD :> n) @@ (K_VALUE :> v)))

\* C4: the shorthand {N: V} and the explicit {FIELD: N, VALUE: V} construct the same
\* condition, so eval and to_sieve agree on them; to_sieve returns a string; the field
\* name is matched case-insensitively and the match value V is used unchanged.
C4_HeaderShapesEquivalent ==
    (pc = "built" /\ (IsShorthand(cfg) \/ IsExplicit(cfg))) =>
        /\ tree = Construct(Shorthand(FieldOf(cfg), ValueOf(cfg)))
        /\ tree = Construct(Explicit(FieldOf(cfg), ValueOf(cfg)))
        /\ TheLeaf.FIELD = Lower(FieldOf(cfg))
        /\ GetOperand(TheLeaf) = Str(ValueOf(cfg))
        /\ out.op = "to_sieve" => out.exc = "none"

RECURSIVE HasEmptyList(_)
HasEmptyList(d) ==
    \/ "ALL" \in DOMAIN d /\ (Len(d["ALL"]) = 0 \/ \E i \in 1..Len(d["ALL"]) : HasEmptyList(d["ALL"][i]))
    \/ "ANY" \in DOMAIN d /\ (Len(d["ANY"]) = 0 \/ \E i \in 1..Len(d["ANY"]) : HasEmptyList(d["ANY"][i]))
    \/ "NOT" \in DOMAIN d /\ HasEmptyList(d["NOT"])
RECURSIVE HasEmptyCombinator(_)
HasEmptyCombinator(n) ==
    \/ n.kind \in {"All", "Any"} /\ Len(n.kids) = 0
    \/ n.kind \in {"All", "Any", "Not"} /\ \E i \in 1..Len(n.kids) : HasEmptyCombinator(n.kids[i])

RECURSIVE SieveText(_)
SieveTexts(kids) == [i \in 1..Len(kids) |-> SieveText(kids[i])]
SieveText(n) ==
    IF n.kind = "All" THEN <<"allof", "(">> \o JoinWith(<<",", " ">>, SieveTexts(n.kids)) \o <<")">>
    ELSE IF n.kind = "Any"
         THEN <<"anyof", "(">> \o JoinWith(<<",", " ">>, SieveTexts(n.kids)) \o <<")">>
    ELSE IF n.kind = "Not" THEN <<"not", " ">> \o SieveText(n.kids[1])
    ELSE IF n.kind = "Header" THEN BaseToSieve(n.kids[1]).str
    ELSE ToSieve(n).str
RECURSIVE HasHeader(_)
HasHeader(n) == n.kind = "Header" \/ \E i \in 1..Len(n.kids) : HasHeader(n.kids[i])

\* C6: to_sieve of a combinator renders its children in order: All as allof(c1, c2, ...),
\* Any as anyof(...), Not as "not " and its child, at every nesting.
C6_CombinatorsRender ==
    (Rendered /\ tree.kind \in {"All", "Any", "Not"} /\ ~HasEmptyCombinator(tree) /\ ~HasHeader(tree)) =>
        (out.exc = "none" /\ out.str = SieveText(tree))

\* C7: on a constructed tree and a conforming message eval and to_sieve return a value
\* and never raise, and a header absent from the message is compared as "".
C7_EvalAndRenderTotal ==
    /\ (pc = "built" /\ Conforming(msg)) => out.exc = "none"
    /\ (Evaluated /\ tree.kind = "Header" /\ tree.kids[1].FIELD \notin DOMAIN msg.headers) =>
           (out.val <=> \E x \in OperandSet(tree.kids[1]) :
                            OperatorEval(tree.kids[1].operator, x, <<>>))

RECURSIVE HasBody(_)
HasBody(n) == n.kind = "Body" \/ \E i \in 1..Len(n.kids) : HasBody(n.kids[i])
\* headers_only as the claim derives it
RECURSIVE DerivedHeadersOnly(_)
DerivedHeadersOnly(n) ==
    IF n.kind \in {"All", "Any"} THEN \A i \in 1..Len(n.kids) : DerivedHeadersOnly(n.kids[i])
    ELSE IF n.kind = "Not" THEN DerivedHeadersOnly(n.kids[1])
    ELSE n.kind # "Body"

\* C8: headers_only is true of From, To, Subject and Header leaves and false of Body, of
\* All and Any it is true iff it is true of every child, of Not it is the child's; so it
\* is true of a tree iff the tree holds no Body leaf.
C8_HeadersOnlyDerived ==
    (pc = "built" /\ out.op = "headers_only") =>
        /\ out.val = DerivedHeadersOnly(tree)
        /\ out.val = ~HasBody(tree)
        /\ tree.kind \in {"All", "Any"} =>
               (out.val <=> \A i \in 1..Len(tree.kids) : HeadersOnly(tree.kids[i]))
        /\ tree.kind = "Not" => (out.val <=> HeadersOnly(tree.kids[1]))

\* an Any of a From and a Body has reported headers_only false
C8_Witness ==
    /\ pc = "built" /\ out.op = "headers_only"
    /\ tree.kind = "Any" /\ Len(tree.kids) = 2
    /\ tree.kids[1].kind = "From" /\ tree.kids[2].kind = "Body"
    /\ ~out.val

\* the operators a header configuration names, beside HEADER or inside the mapping
ConfiguredOperators(d) ==
    (IF "operator" \in DOMAIN d THEN {ParseOperator(d["operator"])} ELSE {})
    \cup (IF K_operator \in DOMAIN d["HEADER"] THEN {ParseOperator(d["HEADER"][K_operator])} ELSE {})

\* C10: an operator configured for a header condition, beside HEADER or inside the
\* mapping, in the shorthand or the explicit shape, is the operator of the header leaf.
C10_OperatorReachesLeaf ==
    (pc = "built" /\ tree.kind = "Header" /\ ConfiguredOperators(cfg) # {}) =>
        tree.kids[1].operator \in ConfiguredOperators(cfg)

Parent(path) == SubSeq(path, 1, Len(path) - 1)
Position(path) == path[Len(path)]
\* the call on the node at r.path made its caller, an All or an Any, stop
StopsCaller(r) ==
    /\ Len(r.path) > 0 /\ r.exc = "none"
    /\ \/ NodeAt(tree, Parent(r.path)).kind = "All" /\ ~r.val
       \/ NodeAt(tree, Parent(r.path)).kind = "Any" /\ r.val
Siblings(p, q) == Len(p) > 0 /\ Len(q) > 0 /\ Parent(p) = Parent(q)
Done(w) == wpc[w] = "done" /\ ret[w].op = "eval"
\* of the root's children, worker w has evaluated the first and no other
OnlyFirstEntered(w) ==
    /\ \E b \in 1..Len(entered[w]) : entered[w][b] = <<1>>
    /\ \A b \in 1..Len(entered[w]) : Len(entered[w][b]) = 0 \/ entered[w][b][1] = 1

\* C2: the children of an All or an Any are evaluated in list order, and none placed
\* after the first false child of an All, or the first true child of an Any, is
\* evaluated: All of [false, X] returns False and Any of [true, X] returns True with X
\* never evaluated, even where evaluating X raises.
C2_ShortCircuitInOrder ==
    \A w \in Workers :
        /\ \A a \in 1..Len(returned[w]), b \in 1..Len(entered[w]) :
               (Siblings(returned[w][a].path, entered[w][b]) /\ StopsCaller(returned[w][a]))
                   => Position(entered[w][b]) <= Position(returned[w][a].path)
        /\ \A a, b \in 1..Len(entered[w]) :
               (a < b /\ Siblings(entered[w][a], entered[w][b]))
                   => Position(entered[w][a]) < Position(entered[w][b])
        /\ (Done(w) /\ tree.kind = "All" /\ Len(tree.kids) >= 2
                /\ Eval(tree.kids[1], wmsg[w]) = BoolResult(FALSE))
               => (ret[w].exc = "none" /\ ~ret[w].val /\ OnlyFirstEntered(w))
        /\ (Done(w) /\ tree.kind = "Any" /\ Len(tree.kids) >= 2
                /\ Eval(tree.kids[1], wmsg[w]) = BoolResult(TRUE))
               => (ret[w].exc = "none" /\ ret[w].val /\ OnlyFirstEntered(w))

\* an All whose first child is false and whose second child would raise has returned False
C2_Witness ==
    \E w \in Workers :
        /\ Done(w) /\ tree.kind = "All" /\ Len(tree.kids) = 2
        /\ Eval(tree.kids[1], wmsg[w]) = BoolResult(FALSE)
        /\ Eval(tree.kids[2], wmsg[w]).exc = "IndexError"
        /\ ret[w].exc = "none" /\ ~ret[w].val
        /\ <<2>> \notin {entered[w][b] : b \in 1..Len(entered[w])}

\* C9: whatever calls of eval and to_sieve the workers interleave on the one tree, the
\* tree and the messages are never changed, and every call returns what it returns when
\* it runs alone: a function of the tree and of its own message.
C9_PureAndReentrant ==
    /\ [](/\ tree = Construct(cfg)
          /\ \A w \in Workers :
                 /\ Done(w) => ret[w] = Out("eval", Eval(tree, wmsg[w]))
                 /\ (wpc[w] = "done" /\ ret[w].op = "to_sieve")
                        => ret[w] = Out("to_sieve", ToSieve(tree)))
    /\ [][tree' = tree /\ wmsg' = wmsg]_vars

\* one worker is inside an eval of a combinator on one message while the other has
\* finished an eval of the same tree on another message, with another result
C9_Witness ==
    /\ tree.kind \in {"All", "Any"}
    /\ Done(1) /\ wpc[2] = "running" /\ Len(stack[2]) = 2
    /\ wmsg[1] # wmsg[2]
    /\ ret[1].val # Eval(tree, wmsg[2]).val

====
